---- MODULE Spec2Model ----
\* A model of worker.go (package worker): the scheduler loop Worker.Run, the
\* tick executor Worker.do run as one goroutine per tick, and the range
\* calculator Worker.calcRange / Worker.QueryWindow.
\*
\* Durations (time.Duration) and wall-clock instants are counted in
\* milliseconds. Quantiles (float64) are counted in thousandths.
EXTENDS Integers, Sequences, FiniteSets, TLC

\* ------------------------------------------------------------------ bounds

\* The number of ticks whose goroutine is followed; the ticks Run launches
\* beyond it are counted, and not followed.
MaxTicks == 2

\* The last wall-clock second at which the ticker still fires.
MaxNow == 760

\* The span, in seconds, of the wall-clock instants at which Run may start.
MaxStart == 61

\* ------------------------------------------------------- program constants

\* time.Second, counted in milliseconds.
Second == 1000

\* RetryInterval = 3 * time.Second
RetryInterval == 3 * Second

\* errs := make(chan error, 1)
ErrsCap == 1

\* time.Now().Unix() / 60 * 60
Minute == 60

TickIds == 1 .. MaxTicks

\* The first wall-clock second at which Run may start (a minute boundary).
StartBase == 10 * Minute

VARIABLES
    Quantiles,      \* Worker.Quantiles: sequence of quantiles, in thousandths
    QueryInterval,  \* Worker.QueryInterval, ms
    StepDuration,   \* Worker.StepDuration, ms
    SleepDuration,  \* Worker.SleepDuration, ms
    prom,           \* the backend behind prometheus.Querier: metric names, label sets
    now,            \* the wall clock, ms since the epoch
    nextTick,       \* the instant of the ticker's next firing
    wake,           \* the instant at which time.Sleep(RetryInterval) returns
    loopPc,         \* position of Run: "launch", "select", "backoff", "stopped"
    errs,           \* the channel errs (capacity 1): sequence of errors
    tickerC,        \* ticker.C (capacity 1): TRUE when a firing is buffered
    interrupt,      \* the interrupt channel: TRUE when a signal is buffered
    logged,         \* errors printed by log.Println("Worker failed:", err)
    stopLog,        \* TRUE once "Worker has been stopped." was printed
    crashed,        \* TRUE once a goroutine panicked: the process is gone
    launched,       \* number of `go w.do(errs)` executed
    ticks           \* the goroutines running do, by launch number

vars == << Quantiles, QueryInterval, StepDuration, SleepDuration, prom, now,
           nextTick, wake, loopPc, errs, tickerC, interrupt, logged, stopLog,
           crashed, launched, ticks >>

config == << Quantiles, QueryInterval, StepDuration, SleepDuration, prom >>

loopVars == << loopPc, logged, stopLog, launched >>

\* ------------------------------------------------------------- arithmetic

\* Go's integer division truncates toward zero.
GoDiv(a, b) ==
    LET abs(x) == IF x >= 0 THEN x ELSE -x
        q      == abs(a) \div abs(b)
    IN  IF (a >= 0) = (b > 0) THEN q ELSE -q

Max(a, b) == IF a >= b THEN a ELSE b

\* ---------------------------------------------------------- range calculator

\* time.Duration(w.QueryInterval.Seconds()*1.2) * time.Second: the product is
\* truncated to whole seconds (for the intervals used here the float64
\* product truncates to the same integer as the exact product).
QueryWindow == GoDiv(QueryInterval * 12, 10 * Second) * Second

\* int64(w.StepDuration.Seconds())
stepSeconds == GoDiv(StepDuration, Second)

\* calcRange divides by stepSeconds: a step below one second panics.
calcRangePanics == stepSeconds = 0

\* calcRange with the start floored to the step and not padded.
calcRangeStartUnpadded(t) ==
    LET end  == GoDiv(GoDiv(t, Second), Minute) * Minute
        star == end - GoDiv(QueryWindow, Second)
        s    == GoDiv(star, stepSeconds) * stepSeconds
        e    == (GoDiv(end, stepSeconds) + 1) * stepSeconds
    IN  [Start |-> s * Second, End |-> e * Second, Step |-> StepDuration]

\* calcRange at wall-clock instant t (ms): Start and End in ms, Step as given.
calcRange(t) ==
    LET end  == GoDiv(GoDiv(t, Second), Minute) * Minute
        star == end - GoDiv(QueryWindow, Second)
        s    == (GoDiv(star, stepSeconds) - 1) * stepSeconds
        e    == (GoDiv(end, stepSeconds) + 1) * stepSeconds
    IN  [Start |-> s * Second, End |-> e * Second, Step |-> StepDuration]

NoRange == [Start |-> 0, End |-> 0, Step |-> 0]

\* ------------------------------------------------------------ expressions

\* fmt.Sprintf("%.2f", quantile): the quantile rounded to hundredths (none of
\* the quantiles used lies halfway between two hundredths).
Fmt2f(q) == (q + 5) \div 10

\* fmt.Sprintf(HistogramPromQL, quantile, bucketName)
HistogramPromQL(quantile, bucketName) ==
    [kind |-> "histogram_quantile", q |-> Fmt2f(quantile), metric |-> bucketName]

\* fmt.Sprintf(RatePromQL, counterName)
RatePromQL(counterName) == [kind |-> "rate", q |-> 0, metric |-> counterName]

\* the raw-count query is the bare counter name
RawPromQL(counterName) == [kind |-> "raw", q |-> 0, metric |-> counterName]

NoPromQL == [kind |-> "none", q |-> 0, metric |-> ""]

\* ------------------------------------------------------------- translators

\* One target series per label set of the matrix, in matrix order.
PromHistogramToDatadogGauge(bucketName, quantile, matrix) ==
    [i \in 1 .. Len(matrix) |->
        [type |-> "gauge", metric |-> bucketName, quantile |-> quantile,
         tags |-> matrix[i]]]

PromCountToDatadogRate(counterName, matrix) ==
    [i \in 1 .. Len(matrix) |->
        [type |-> "rate", metric |-> counterName, quantile |-> 0,
         tags |-> matrix[i]]]

PromCountToDatadogCount(counterName, matrix) ==
    [i \in 1 .. Len(matrix) |->
        [type |-> "count", metric |-> counterName, quantile |-> 0,
         tags |-> matrix[i]]]

\* ------------------------------------------------------------------ ticks

\* A goroutine that has not been launched, or has returned.
Idle(pc) ==
    [pc |-> pc, queryRange |-> NoRange, at |-> 0,
     histograms |-> << >>, counters |-> << >>,
     qi |-> 0, bi |-> 0, ci |-> 0,
     histogramSeries |-> << >>, rateSeries |-> << >>, countSeries |-> << >>,
     listErr |-> FALSE, err |-> "", calls |-> << >>]

NotLaunched == Idle("none")
Returned == Idle("done")

\* One entry of a tick's call log: a QueryMetrics or a SubmitMetrics call.
Call(op, promql, range, ok, matrix, series) ==
    [op |-> op, promql |-> promql, range |-> range, ok |-> ok,
     matrix |-> matrix, series |-> series]

\* Where do continues once the histogram loops are over (line 87).
CountersEntry(tk) ==
    IF Len(tk.counters) > 0
    THEN [tk EXCEPT !.pc = "rate", !.ci = 1]
    ELSE [tk EXCEPT !.pc = "submit"]

\* Where do continues once ListMetrics has returned (lines 70-71).
HistogramsEntry(tk) ==
    IF Len(Quantiles) > 0 /\ Len(tk.histograms) > 0
    THEN [tk EXCEPT !.pc = "hist", !.qi = 1, !.bi = 1]
    ELSE CountersEntry(tk)

\* AfterHistogram with the outer loop left after its first quantile.
AfterHistogramFirstQuantile(tk) ==
    IF tk.bi < Len(tk.histograms)
    THEN [tk EXCEPT !.bi = tk.bi + 1]
    ELSE CountersEntry(tk)

\* The next iteration of the nested loops of lines 70-71.
AfterHistogram(tk) ==
    IF tk.bi < Len(tk.histograms)
    THEN [tk EXCEPT !.bi = tk.bi + 1]
    ELSE IF tk.qi < Len(Quantiles)
         THEN [tk EXCEPT !.qi = tk.qi + 1, !.bi = 1]
         ELSE CountersEntry(tk)

\* The next iteration of the loop of line 87.
AfterCount(tk) ==
    IF tk.ci < Len(tk.counters)
    THEN [tk EXCEPT !.pc = "rate", !.ci = tk.ci + 1]
    ELSE [tk EXCEPT !.pc = "submit"]

\* Fail without its `return`: the error is noted and do goes on to submit.
FailNoReturn(tk, t, op) == [tk EXCEPT !.pc = "submit", !.err = op]

\* `errorChan <- err; return` with the error of tick t's failed call.
Fail(tk, t, op) == [tk EXCEPT !.pc = "send", !.err = op]

Running == ~crashed

\* line 58: queryRange := w.calcRange()
DoCalcRange(t) ==
    /\ Running
    /\ ticks[t].pc = "calcRange"
    /\ IF calcRangePanics
       THEN /\ crashed' = TRUE
            /\ ticks' = [ticks EXCEPT ![t].pc = "panic"]
       ELSE /\ crashed' = crashed
            /\ ticks' = [ticks EXCEPT ![t].pc = "list",
                                      ![t].at = now,
                                      ![t].queryRange = calcRange(now)]
    /\ UNCHANGED << config, now, nextTick, wake, loopVars, errs, tickerC, interrupt >>

\* ListMetricsFails handled like a query error: reported on the channel.
ListMetricsReported(t) ==
    /\ crashed' = crashed
    /\ ticks' = [ticks EXCEPT ![t].pc = "send", ![t].listErr = TRUE,
                              ![t].err = "ListMetrics"]
    /\ errs' = errs

\* lines 59-62: ListMetrics; an error panics.
ListMetricsFails(t) ==
    /\ crashed' = TRUE
    /\ ticks' = [ticks EXCEPT ![t].pc = "panic", ![t].listErr = TRUE]
    /\ errs' = errs

DoListMetrics(t) ==
    /\ Running
    /\ ticks[t].pc = "list"
    /\ \/ ListMetricsFails(t)
       \/ /\ ticks' = [ticks EXCEPT ![t] =
                 HistogramsEntry([ticks[t] EXCEPT !.histograms = prom.histograms,
                                                  !.counters = prom.counters])]
          /\ UNCHANGED << crashed, errs >>
    /\ UNCHANGED << config, now, nextTick, wake, loopVars, tickerC, interrupt >>

\* lines 72-78: one histogram-quantile query.
DoQueryHistogram(t) ==
    /\ Running
    /\ ticks[t].pc = "hist"
    /\ LET tk         == ticks[t]
           quantile   == Quantiles[tk.qi]
           bucketName == tk.histograms[tk.bi]
           promql     == HistogramPromQL(quantile, bucketName)
       IN  \E ok \in BOOLEAN :
             LET matrix == IF ok THEN prom.series ELSE << >>
                 logd   == [tk EXCEPT !.calls = Append(tk.calls,
                              Call("QueryMetrics", promql, tk.queryRange, ok, matrix, << >>))]
             IN  ticks' = [ticks EXCEPT ![t] =
                     IF ok
                     THEN AfterHistogram([logd EXCEPT !.histogramSeries =
                              tk.histogramSeries \o
                              PromHistogramToDatadogGauge(bucketName, quantile, matrix)])
                     ELSE Fail(logd, t, "QueryMetrics")]
    /\ UNCHANGED << config, now, nextTick, wake, loopVars, errs, tickerC, interrupt, crashed >>

\* DoQueryRate querying a window recomputed at the time of the query.
DoQueryRateRecomputes(t) ==
    /\ Running
    /\ ticks[t].pc = "rate"
    /\ LET tk          == ticks[t]
           counterName == tk.counters[tk.ci]
           promql      == RatePromQL(counterName)
       IN  \E ok \in BOOLEAN :
             LET matrix == IF ok THEN prom.series ELSE << >>
                 logd   == [tk EXCEPT !.calls = Append(tk.calls,
                              Call("QueryMetrics", promql, calcRange(now), ok, matrix, << >>))]
             IN  ticks' = [ticks EXCEPT ![t] =
                     IF ok
                     THEN [logd EXCEPT !.pc = "count", !.rateSeries =
                              tk.rateSeries \o PromCountToDatadogRate(counterName, matrix)]
                     ELSE Fail(logd, t, "QueryMetrics")]
    /\ UNCHANGED << config, now, nextTick, wake, loopVars, errs, tickerC, interrupt, crashed >>

\* lines 89-95: the rate query of one counter.
DoQueryRate(t) ==
    /\ Running
    /\ ticks[t].pc = "rate"
    /\ LET tk          == ticks[t]
           counterName == tk.counters[tk.ci]
           promql      == RatePromQL(counterName)
       IN  \E ok \in BOOLEAN :
             LET matrix == IF ok THEN prom.series ELSE << >>
                 logd   == [tk EXCEPT !.calls = Append(tk.calls,
                              Call("QueryMetrics", promql, tk.queryRange, ok, matrix, << >>))]
             IN  ticks' = [ticks EXCEPT ![t] =
                     IF ok
                     THEN [logd EXCEPT !.pc = "count", !.rateSeries =
                              tk.rateSeries \o PromCountToDatadogRate(counterName, matrix)]
                     ELSE Fail(logd, t, "QueryMetrics")]
    /\ UNCHANGED << config, now, nextTick, wake, loopVars, errs, tickerC, interrupt, crashed >>

\* lines 98-103: the raw-count query of the same counter.
DoQueryCount(t) ==
    /\ Running
    /\ ticks[t].pc = "count"
    /\ LET tk          == ticks[t]
           counterName == tk.counters[tk.ci]
           promql      == RawPromQL(counterName)
       IN  \E ok \in BOOLEAN :
             LET matrix == IF ok THEN prom.series ELSE << >>
                 logd   == [tk EXCEPT !.calls = Append(tk.calls,
                              Call("QueryMetrics", promql, tk.queryRange, ok, matrix, << >>))]
             IN  ticks' = [ticks EXCEPT ![t] =
                     IF ok
                     THEN AfterCount([logd EXCEPT !.countSeries =
                              tk.countSeries \o PromCountToDatadogCount(counterName, matrix)])
                     ELSE Fail(logd, t, "QueryMetrics")]
    /\ UNCHANGED << config, now, nextTick, wake, loopVars, errs, tickerC, interrupt, crashed >>

\* Batch with the count series appended before the rate series.
BatchCountsFirst(tk) == (tk.histogramSeries \o tk.countSeries) \o tk.rateSeries

\* lines 109-110: the batch handed to SubmitMetrics.
Batch(tk) == (tk.histogramSeries \o tk.rateSeries) \o tk.countSeries

\* lines 109-115: SubmitMetrics with the whole batch.
DoSubmitMetrics(t) ==
    /\ Running
    /\ ticks[t].pc = "submit"
    /\ LET tk == ticks[t]
       IN  \E ok \in BOOLEAN :
             LET logd == [tk EXCEPT !.calls = Append(tk.calls,
                            Call("SubmitMetrics", NoPromQL, NoRange, ok, << >>, Batch(tk)))]
             IN  ticks' = [ticks EXCEPT ![t] =
                     IF ok THEN [logd EXCEPT !.pc = "finish"]
                     ELSE Fail(logd, t, "SubmitMetrics")]
    /\ UNCHANGED << config, now, nextTick, wake, loopVars, errs, tickerC, interrupt, crashed >>

\* DoSendErr without its `return`: after the send do goes on to submit.
DoSendErrNoReturn(t) ==
    /\ Running
    /\ ticks[t].pc = "send"
    /\ Len(errs) < ErrsCap
    /\ errs' = Append(errs, [tick |-> t, op |-> ticks[t].err])
    /\ ticks' = [ticks EXCEPT ![t].pc = "submit"]
    /\ UNCHANGED << config, now, nextTick, wake, loopVars, tickerC, interrupt, crashed >>

\* lines 75-76, 92-93, 100-101, 113-114: `errorChan <- err; return`. The send
\* blocks while the channel is full.
DoSendErr(t) ==
    /\ Running
    /\ ticks[t].pc = "send"
    /\ Len(errs) < ErrsCap
    /\ errs' = Append(errs, [tick |-> t, op |-> ticks[t].err])
    /\ ticks' = [ticks EXCEPT ![t] = Returned]
    /\ UNCHANGED << config, now, nextTick, wake, loopVars, tickerC, interrupt, crashed >>

\* lines 116-118: the closing log lines and the return of a tick that submitted.
DoReturn(t) ==
    /\ Running
    /\ ticks[t].pc = "finish"
    /\ ticks' = [ticks EXCEPT ![t] = Returned]
    /\ UNCHANGED << config, now, nextTick, wake, loopVars, errs, tickerC, interrupt, crashed >>

\* ---------------------------------------------------------- scheduler loop

\* Launch behind a "tick in progress" guard: with a tick in flight the loop
\* goes to its select without starting another.
LaunchGuarded ==
    /\ Running
    /\ loopPc = "launch"
    /\ IF \A t \in TickIds : ticks[t].pc \in {"none", "done"}
       THEN /\ launched' = launched + 1
            /\ ticks' = IF launched < MaxTicks
                        THEN [ticks EXCEPT ![launched + 1] = Idle("calcRange")]
                        ELSE ticks
       ELSE UNCHANGED << launched, ticks >>
    /\ loopPc' = "select"
    /\ UNCHANGED << config, now, nextTick, wake, errs, tickerC, interrupt, logged,
                    stopLog, crashed >>

\* line 38: go w.do(errs)
Launch ==
    /\ Running
    /\ loopPc = "launch"
    /\ launched' = launched + 1
    /\ ticks' = IF launched < MaxTicks
                THEN [ticks EXCEPT ![launched + 1] = Idle("calcRange")]
                ELSE ticks
    /\ loopPc' = "select"
    /\ UNCHANGED << config, now, nextTick, wake, errs, tickerC, interrupt, logged,
                    stopLog, crashed >>

\* RecvErr without the time.Sleep: the next tick is launched at once.
RecvErrNoBackoff ==
    /\ Running
    /\ loopPc = "select"
    /\ Len(errs) > 0
    /\ logged' = logged \cup {Head(errs)}
    /\ errs' = Tail(errs)
    /\ loopPc' = "launch"
    /\ UNCHANGED << config, now, nextTick, wake, tickerC, interrupt, stopLog, crashed,
                    launched, ticks >>

\* RecvErr that logs the error and returns from Run.
RecvErrExit ==
    /\ Running
    /\ loopPc = "select"
    /\ Len(errs) > 0
    /\ logged' = logged \cup {Head(errs)}
    /\ errs' = Tail(errs)
    /\ loopPc' = "stopped"
    /\ UNCHANGED << config, now, nextTick, wake, tickerC, interrupt, stopLog, crashed,
                    launched, ticks >>

\* lines 41-43: an error is received and logged; time.Sleep(RetryInterval) begins.
RecvErr ==
    /\ Running
    /\ loopPc = "select"
    /\ Len(errs) > 0
    /\ logged' = logged \cup {Head(errs)}
    /\ errs' = Tail(errs)
    /\ wake' = now + RetryInterval
    /\ loopPc' = "backoff"
    /\ UNCHANGED << config, now, nextTick, tickerC, interrupt, stopLog, crashed,
                    launched, ticks >>

\* line 43: time.Sleep(RetryInterval) returns, no earlier than `wake`; the
\* ticker firings due by then have happened.
BackoffElapsed ==
    /\ Running
    /\ loopPc = "backoff"
    /\ nextTick > wake \/ nextTick > MaxNow * Second
    /\ now' = Max(now, wake)
    /\ wake' = 0
    /\ loopPc' = "launch"
    /\ UNCHANGED << config, nextTick, errs, tickerC, interrupt, logged, stopLog,
                    crashed, launched, ticks >>

\* RecvTicker that returns from Run.
RecvTickerReturn ==
    /\ Running
    /\ loopPc = "select"
    /\ tickerC
    /\ tickerC' = FALSE
    /\ loopPc' = "stopped"
    /\ UNCHANGED << config, now, nextTick, wake, errs, interrupt, logged, stopLog,
                    crashed, launched, ticks >>

\* lines 44-45: a ticker firing is received.
RecvTicker ==
    /\ Running
    /\ loopPc = "select"
    /\ tickerC
    /\ tickerC' = FALSE
    /\ loopPc' = "launch"
    /\ UNCHANGED << config, now, nextTick, wake, errs, interrupt, logged, stopLog,
                    crashed, launched, ticks >>

\* RecvInterrupt with `break` for `return`: only the select is left.
RecvInterruptBreak ==
    /\ Running
    /\ loopPc = "select"
    /\ interrupt
    /\ interrupt' = FALSE
    /\ stopLog' = TRUE
    /\ loopPc' = "launch"
    /\ UNCHANGED << config, now, nextTick, wake, errs, tickerC, logged, crashed,
                    launched, ticks >>

\* lines 46-48: the interrupt is received; Run returns.
RecvInterrupt ==
    /\ Running
    /\ loopPc = "select"
    /\ interrupt
    /\ interrupt' = FALSE
    /\ stopLog' = TRUE
    /\ loopPc' = "stopped"
    /\ UNCHANGED << config, now, nextTick, wake, errs, tickerC, logged, crashed,
                    launched, ticks >>

\* ------------------------------------------------------------ environment

\* line 33: the ticker fires every SleepDuration until ticker.Stop() (line 34);
\* a firing is dropped when ticker.C still holds the previous one.
TickerFire ==
    /\ Running
    /\ loopPc # "stopped"
    /\ nextTick <= MaxNow * Second
    /\ now' = Max(now, nextTick)
    /\ nextTick' = nextTick + SleepDuration
    /\ tickerC' = TRUE
    /\ UNCHANGED << config, wake, loopVars, errs, interrupt, crashed, ticks >>

\* line 32: the process is signalled.
Signal ==
    /\ Running
    /\ loopPc # "stopped"
    /\ ~interrupt
    /\ interrupt' = TRUE
    /\ UNCHANGED << config, now, nextTick, wake, loopVars, errs, tickerC, crashed, ticks >>

\* ---------------------------------------------------------- specifications

Catalog(h, c, s) == [histograms |-> h, counters |-> c, series |-> s]

\* The state after construction, for a given configuration and start instant.
Start(t0) ==
    /\ now = t0
    /\ nextTick = t0 + SleepDuration
    /\ wake = 0
    /\ loopPc = "launch"
    /\ errs = << >>
    /\ tickerC = FALSE
    /\ interrupt = FALSE
    /\ logged = {}
    /\ stopLog = FALSE
    /\ crashed = FALSE
    /\ launched = 0
    /\ ticks = [t \in TickIds |-> NotLaunched]

\* The scheduler with overlapping ticks: one histogram, one counter.
Init ==
    /\ Quantiles = << 500 >>
    /\ QueryInterval = 60 * Second
    /\ StepDuration = 15 * Second
    /\ SleepDuration = 60 * Second
    /\ prom = Catalog(<< "latency_bucket" >>, << "requests_total" >>, << "ns1" >>)
    /\ Start(StartBase * Second)

Do(t) ==
    \/ DoCalcRange(t)
    \/ DoListMetrics(t)
    \/ DoQueryHistogram(t)
    \/ DoQueryRate(t)
    \/ DoQueryCount(t)
    \/ DoSubmitMetrics(t)
    \/ DoSendErr(t)
    \/ DoReturn(t)

Next ==
    \/ Launch
    \/ RecvErr
    \/ BackoffElapsed
    \/ RecvTicker
    \/ RecvInterrupt
    \/ TickerFire
    \/ Signal
    \/ \E t \in TickIds : Do(t)

Spec == Init /\ [][Next]_vars

\* The same scheduler under the scheduling the Go runtime provides: every
\* goroutine that can run does run, a sleep ends, the ticker fires, and a
\* select whose error case is ready again and again takes it.
Fairness ==
    /\ WF_vars(Launch)
    /\ WF_vars(BackoffElapsed)
    /\ WF_vars(RecvTicker)
    /\ WF_vars(RecvInterrupt)
    /\ SF_vars(RecvErr)
    /\ WF_vars(TickerFire)
    /\ \A t \in TickIds : WF_vars(Do(t))

FairSpec == Init /\ [][Next]_vars /\ Fairness

\* Ticks one after the other (a ticker period longer than the run), over
\* every catalog and quantile list below.
HistogramNames == { << >>, << "latency_bucket" >>, << "latency_bucket", "size_bucket" >> }
CounterNames == { << >>, << "requests_total" >>, << "requests_total", "errors_total" >> }
LabelSets == { << >>, << "ns1" >>, << "ns1", "ns2" >> }
QuantileLists == { << 500 >>, << 500, 990 >> }

TickInit ==
    /\ Quantiles \in QuantileLists
    /\ QueryInterval = 60 * Second
    /\ StepDuration = 15 * Second
    /\ SleepDuration = 60 * Second
    /\ prom \in { Catalog(h, c, s) : h \in HistogramNames, c \in CounterNames, s \in LabelSets }
    /\ Start(StartBase * Second)

TickNext ==
    \/ Launch
    \/ RecvErr
    \/ BackoffElapsed
    \/ RecvInterrupt
    \/ Signal
    \/ \E t \in TickIds : Do(t)

TickSpec == TickInit /\ [][TickNext]_vars

\* The range calculator over intervals, steps, periods and start instants:
\* ticks launched by the ticker, each computing its window.
QueryIntervals == { 30 * Second, 60 * Second, 60 * Second + 500, 90 * Second }
StepDurations == { 500, Second, Second + 500, 15 * Second, 60 * Second }
SleepDurations == { 30 * Second, 60 * Second, 90 * Second }

\* The wall-clock second 12:00:47 of the first day.
ExampleNow == 12 * 60 * Minute + 47

\* The wall-clock seconds at which Run may start.
StartInstants == { StartBase + k : k \in 0 .. MaxStart } \cup { ExampleNow }

RangeInit ==
    /\ Quantiles = << 500 >>
    /\ QueryInterval \in QueryIntervals
    /\ StepDuration \in StepDurations
    /\ SleepDuration \in SleepDurations
    /\ prom = Catalog(<< "latency_bucket" >>, << "requests_total" >>, << "ns1" >>)
    /\ \E t0 \in StartInstants : Start(t0 * Second)

RangeNext ==
    \/ Launch
    \/ RecvTicker
    \/ TickerFire
    \/ \E t \in TickIds : DoCalcRange(t)

RangeSpec == RangeInit /\ [][RangeNext]_vars

\* Ticks one after the other under a step that is negative, zero or below
\* one second.
InvalidSteps == { -15 * Second, -500, 0, 500 }

StepInit ==
    /\ Quantiles = << 500 >>
    /\ QueryInterval = 60 * Second
    /\ StepDuration \in InvalidSteps
    /\ SleepDuration = 60 * Second
    /\ prom = Catalog(<< "latency_bucket" >>, << "requests_total" >>, << "ns1" >>)
    /\ Start(StartBase * Second)

StepSpec == StepInit /\ [][TickNext]_vars

\* The scheduler of Spec under a valid step and under one below a second.
EndSteps == { 500, 15 * Second }

EndInit ==
    /\ Quantiles = << 500 >>
    /\ QueryInterval = 60 * Second
    /\ StepDuration \in EndSteps
    /\ SleepDuration = 60 * Second
    /\ prom = Catalog(<< "latency_bucket" >>, << "requests_total" >>, << "ns1" >>)
    /\ Start(StartBase * Second)

EndSpec == EndInit /\ [][Next]_vars

\* Ticks one after the other over quantile lists with a third decimal.
FineQuantileLists == { << 500, 990 >>, << 990, 999 >>, << 991, 994 >> }

QuantileInit ==
    /\ Quantiles \in FineQuantileLists
    /\ QueryInterval = 60 * Second
    /\ StepDuration = 15 * Second
    /\ SleepDuration = 60 * Second
    /\ prom \in { Catalog(h, << "requests_total" >>, << "ns1" >>) :
                     h \in HistogramNames \ { << >> } }
    /\ Start(StartBase * Second)

QuantileSpec == QuantileInit /\ [][TickNext]_vars

\* ------------------------------------------------------------------ claims

Range(q) == { q[i] : i \in 1 .. Len(q) }

RECURSIVE ConcatAll(_, _)
\* f[1] \o ... \o f[n]
ConcatAll(f, n) == IF n = 0 THEN << >> ELSE ConcatAll(f, n - 1) \o f[n]

\* The queries a tick with the catalog of tk issues when none fails.
ExpectedQueries(tk) ==
    LET Q == Len(Quantiles)
        H == Len(tk.histograms)
        C == Len(tk.counters)
    IN  [i \in 1 .. (Q * H + 2 * C) |->
            IF i <= Q * H
            THEN HistogramPromQL(Quantiles[((i - 1) \div H) + 1],
                                 tk.histograms[((i - 1) % H) + 1])
            ELSE LET j == i - Q * H
                 IN  IF j % 2 = 1
                     THEN RatePromQL(tk.counters[(j + 1) \div 2])
                     ELSE RawPromQL(tk.counters[j \div 2])]

\* The batch made of the translated results the call log of tk holds.
ExpectedBatch(tk) ==
    LET Q == Len(Quantiles)
        H == Len(tk.histograms)
        C == Len(tk.counters)
        hist  == [i \in 1 .. Q * H |->
                    PromHistogramToDatadogGauge(tk.histograms[((i - 1) % H) + 1],
                                                Quantiles[((i - 1) \div H) + 1],
                                                tk.calls[i].matrix)]
        rate  == [c \in 1 .. C |->
                    PromCountToDatadogRate(tk.counters[c], tk.calls[Q * H + 2 * c - 1].matrix)]
        count == [c \in 1 .. C |->
                    PromCountToDatadogCount(tk.counters[c], tk.calls[Q * H + 2 * c].matrix)]
    IN  (ConcatAll(hist, Q * H) \o ConcatAll(rate, C)) \o ConcatAll(count, C)

\* C1: a tick whose range query failed has made no call after it (no further
\* query, no SubmitMetrics); all it does next is send that error, and then it
\* has returned for good.
C1_TickAbort ==
    /\ [](\A t \in TickIds : \A i \in 1 .. Len(ticks[t].calls) :
            (ticks[t].calls[i].op = "QueryMetrics" /\ ~ticks[t].calls[i].ok)
               => /\ i = Len(ticks[t].calls)
                  /\ ticks[t].pc = "send"
                  /\ ticks[t].err = "QueryMetrics")
    /\ [][\A t \in TickIds :
            /\ (ticks[t].pc = "send" /\ ticks'[t] # ticks[t])
                  => /\ ticks'[t] = Returned
                     /\ errs' = Append(errs, [tick |-> t, op |-> ticks[t].err])
            /\ ticks[t].pc = "done" => ticks'[t] = ticks[t]]_vars

\* C1 witness: a histogram query failed with counters still to be queried.
C1_Witness ==
    \E t \in TickIds :
        /\ ticks[t].pc = "send"
        /\ ticks[t].err = "QueryMetrics"
        /\ Len(ticks[t].calls) = 2
        /\ ticks[t].calls[2].promql.kind = "histogram_quantile"
        /\ Len(ticks[t].counters) = 2

\* C2: on receiving a tick's error the loop starts a RetryInterval backoff;
\* during the backoff it launches nothing; it leaves the backoff only once
\* RetryInterval has passed, and only to launch the next tick, which it can.
C2_BackoffThenNextTick ==
    /\ [][/\ logged' # logged
             => /\ loopPc' = "backoff"
                /\ wake' = now + RetryInterval
                /\ launched' = launched
          /\ loopPc = "backoff"
             => /\ launched' = launched
                /\ loopPc' # "backoff" => (loopPc' = "launch" /\ now' >= wake)
          /\ (loopPc = "launch" /\ loopPc' # "launch")
             => /\ launched' = launched + 1
                /\ loopPc' = "select"]_vars
    /\ []((loopPc = "launch" /\ ~crashed) => ENABLED Launch)

\* C2 witness: a tick launched right after the backoff that followed the
\* first tick's error has started, RetryInterval after the start.
C2_Witness ==
    \E t \in TickIds :
        /\ ticks[t].pc = "list"
        /\ ticks[t].at = StartBase * Second + RetryInterval
        /\ logged # {}

\* C3: receiving a tick's error never ends the loop or the process: Run
\* returns only on the interrupt, the process dies only by a panic, and after
\* every received error the loop is in its backoff, from which it launches.
C3_KeepsScheduling ==
    /\ [][logged' # logged => (loopPc' = "backoff" /\ ~crashed')]_vars
    /\ [][Len(errs') > Len(errs) => (loopPc' = loopPc /\ crashed' = crashed)]_vars
    /\ [](loopPc = "stopped" => stopLog)
    /\ [](crashed => \E t \in TickIds : ticks[t].pc = "panic")
    /\ []((loopPc = "backoff" /\ ~crashed) => ENABLED (BackoffElapsed \/ TickerFire))

\* C3 witness: two overlapping ticks both failed; one error is logged, the
\* other is in the channel, and the loop is running.
C3_Witness ==
    /\ Cardinality(logged) = 1
    /\ Len(errs) = 1
    /\ \A e \in logged : e.tick # errs[1].tick
    /\ loopPc = "launch"
    /\ ~crashed

\* C4: a tick whose ListMetrics failed has panicked: it made no query and no
\* submission and sent nothing on the channel; the process is gone, so
\* nothing is logged, no backoff starts and no tick is launched afterwards.
C4_DiscoveryFatal ==
    /\ [](\A t \in TickIds : ticks[t].listErr
            => /\ crashed
               /\ ticks[t].pc = "panic"
               /\ ticks[t].calls = << >>
               /\ \A e \in Range(errs) \cup logged : e.tick # t)
    /\ [][crashed => vars' = vars]_vars

\* C4 witness: ListMetrics failed in the second of two overlapping ticks.
C4_Witness ==
    /\ ticks[2].listErr
    /\ ticks[1].pc \in {"hist", "rate", "count", "submit", "send"}

\* C5: once the interrupt has been received Run has returned, and from then
\* on no tick is launched and no error is received.
C5_StoppedIsFinal ==
    /\ [](stopLog => loopPc = "stopped")
    /\ [][stopLog => (launched' = launched /\ logged' = logged /\ loopPc' = loopPc)]_vars

\* C5 witness: Run has returned with a ticker firing and a tick's error
\* both still buffered.
C5_Witness ==
    /\ stopLog
    /\ tickerC
    /\ Len(errs) = 1

\* C6: while the process lives, every error a tick has sent on the channel is
\* eventually received and logged by the loop.
C6_EveryErrorLogged ==
    \A t \in TickIds : \A op \in {"QueryMetrics", "SubmitMetrics"} :
        ([tick |-> t, op |-> op] \in Range(errs))
            ~> ([tick |-> t, op |-> op] \in logged \/ crashed)

\* C7: a tick in which no call failed has issued, in this order, the Q*H
\* histogram-quantile queries, then for each counter its rate query followed
\* by its raw-count query, then SubmitMetrics once; a tick in flight with no
\* failed call has issued a prefix of that sequence.
C7_CallSequence ==
    \A t \in TickIds :
        LET tk == ticks[t]
            n  == Len(Quantiles) * Len(tk.histograms) + 2 * Len(tk.counters)
        IN  (\A i \in 1 .. Len(tk.calls) : tk.calls[i].ok)
            => /\ Len(tk.calls) <= n + 1
               /\ \A i \in 1 .. Len(tk.calls) :
                    IF i <= n
                    THEN /\ tk.calls[i].op = "QueryMetrics"
                         /\ tk.calls[i].promql = ExpectedQueries(tk)[i]
                    ELSE tk.calls[i].op = "SubmitMetrics"
               /\ tk.pc = "finish" => Len(tk.calls) = n + 1
               /\ tk.pc = "submit" => Len(tk.calls) = n

\* C7 witness: a tick with two quantiles, two histograms and two counters
\* has submitted.
C7_Witness ==
    \E t \in TickIds :
        /\ ticks[t].pc = "finish"
        /\ Len(Quantiles) = 2
        /\ Len(ticks[t].histograms) = 2
        /\ Len(ticks[t].counters) = 2
        /\ Len(ticks[t].calls) = 9

\* C8: the batch a tick hands to SubmitMetrics is the translated results of
\* its histogram queries in query order, then those of its rate queries, then
\* those of its raw-count queries, each in counter order, and nothing else.
C8_BatchComposition ==
    \A t \in TickIds :
        LET tk == ticks[t]
            n  == Len(tk.calls)
        IN  (n > 0 /\ tk.calls[n].op = "SubmitMetrics")
            => tk.calls[n].series = ExpectedBatch(tk)

\* C8 witness: a batch of two histograms at two quantiles and two counters,
\* each query returning two series.
C8_Witness ==
    \E t \in TickIds :
        /\ ticks[t].pc = "finish"
        /\ Len(ticks[t].calls) = 9
        /\ Len(ticks[t].calls[9].series) = 16

\* C9: with a step of at least one second, every window calcRange returns has
\* start < end, start and end multiples of step, and end - start at least
\* 1.2 * queryInterval.
C9_WindowInvariants ==
    \A t \in TickIds :
        (ticks[t].pc = "list" /\ StepDuration >= Second)
        => LET r == ticks[t].queryRange
           IN  /\ r.Start < r.End
               /\ r.Start % r.Step = 0
               /\ r.End % r.Step = 0
               /\ 10 * (r.End - r.Start) >= 12 * QueryInterval

\* C10: of two consecutive ticks started SleepDuration apart, with
\* SleepDuration <= QueryInterval and a step of at least one second, the
\* later window starts no later than the earlier window ends.
C10_Gapless ==
    \A t \in TickIds : \A u \in TickIds :
        (/\ u = t + 1
         /\ ticks[t].pc = "list"
         /\ ticks[u].pc = "list"
         /\ ticks[u].at = ticks[t].at + SleepDuration
         /\ SleepDuration <= QueryInterval
         /\ StepDuration >= Second)
        => ticks[u].queryRange.Start <= ticks[t].queryRange.End

\* The instant h:m:s of the first day, in ms.
Clock(h, m, sec) == ((h * 60 + m) * Minute + sec) * Second

\* The length of the part two windows share (negative: the gap between them).
Overlap(r1, r2) ==
    (IF r1.End <= r2.End THEN r1.End ELSE r2.End)
    - (IF r1.Start >= r2.Start THEN r1.Start ELSE r2.Start)

\* C11: the windows of two consecutive ticks started one QueryInterval apart
\* (step of at least one second) overlap by exactly 20% of QueryInterval.
C11_OverlapTwentyPercent ==
    \A t \in TickIds : \A u \in TickIds :
        (/\ u = t + 1
         /\ ticks[t].pc = "list"
         /\ ticks[u].pc = "list"
         /\ ticks[u].at = ticks[t].at + QueryInterval
         /\ StepDuration >= Second)
        => 10 * Overlap(ticks[t].queryRange, ticks[u].queryRange) = 2 * QueryInterval

\* C12 (as claimed): with queryInterval = 60s, step = 15s and now = 12:00:47
\* calcRange returns start = 11:58:45, end = 12:00:15, step = 15s.
C12_ExampleAsClaimed ==
    \A t \in TickIds :
        (/\ ticks[t].pc = "list"
         /\ ticks[t].at = Clock(12, 0, 47)
         /\ QueryInterval = 60 * Second
         /\ StepDuration = 15 * Second)
        => ticks[t].queryRange =
             [Start |-> Clock(11, 58, 45), End |-> Clock(12, 0, 15), Step |-> 15 * Second]

\* C12 (amended): with queryInterval = 60s, step = 15s and now = 12:00:47
\* calcRange returns start = 11:58:30, end = 12:00:15, step = 15s.
C12_Example ==
    \A t \in TickIds :
        (/\ ticks[t].pc = "list"
         /\ ticks[t].at = Clock(12, 0, 47)
         /\ QueryInterval = 60 * Second
         /\ StepDuration = 15 * Second)
        => ticks[t].queryRange =
             [Start |-> Clock(11, 58, 30), End |-> Clock(12, 0, 15), Step |-> 15 * Second]

\* C12 witness: a tick has computed its window at 12:00:47 with
\* queryInterval = 60s and step = 15s.
C12_Witness ==
    \E t \in TickIds :
        /\ ticks[t].pc = "list"
        /\ ticks[t].at = Clock(12, 0, 47)
        /\ QueryInterval = 60 * Second
        /\ StepDuration = 15 * Second

\* C13: with a step that is zero, negative or below one second no tick ever
\* calls ListMetrics, QueryMetrics or SubmitMetrics.
C13_InvalidStepFailsFast ==
    StepDuration < Second
    => \A t \in TickIds :
         /\ ticks[t].pc \in {"none", "calcRange", "list", "panic"}
         /\ ~ticks[t].listErr
         /\ ticks[t].calls = << >>

\* The errors tick t has sent so far: those in the channel and those received.
Sent(t) == { e \in Range(errs) \cup logged : e.tick = t }

\* C14: a tick sends at most one error on the channel; the step that sends it
\* is the tick's return, and a tick that has sent is done: it makes no query,
\* no submission and no further send.
C14_OneErrorPerTick ==
    /\ [](\A t \in TickIds : Cardinality(Sent(t)) <= 1)
    /\ [](\A t \in TickIds : Sent(t) # {} => ticks[t] = Returned)
    /\ [][\A t \in TickIds :
            Sent(t) # {} => (ticks'[t] = ticks[t] /\ ~ENABLED Do(t))]_vars

\* C14 witness: of two overlapping ticks both have sent their one error, a
\* failed query and a failed submission; one is logged, the other buffered.
C14_Witness ==
    /\ \E t \in TickIds : Sent(t) = {[tick |-> t, op |-> "QueryMetrics"]}
    /\ \E t \in TickIds : Sent(t) = {[tick |-> t, op |-> "SubmitMetrics"]}
    /\ loopPc = "backoff"
    /\ Len(errs) = 1

\* A tick that has been launched and has neither returned nor panicked.
InFlight(t) == ticks[t].pc \notin {"none", "done", "panic"}

\* C15: a ticker firing received while a tick is in flight sends the loop to
\* launch the next tick, and that launch happens whatever the earlier ticks
\* are doing; no step of the loop changes a launched tick, and while the
\* process lives a tick in flight can take its next step unless it is waiting
\* to send its error.
C15_OverlapNoCancel ==
    /\ [][(loopPc = "select" /\ tickerC /\ ~tickerC')
            => (loopPc' = "launch" /\ ticks' = ticks)]_vars
    /\ [][(loopPc = "launch" /\ loopPc' # "launch")
            => /\ launched' = launched + 1
               /\ launched < MaxTicks => ticks'[launched + 1].pc = "calcRange"
               /\ \A t \in TickIds : t # launched + 1 => ticks'[t] = ticks[t]]_vars
    /\ [][\A t \in TickIds :
            (InFlight(t) /\ ticks'[t] # ticks[t])
               => (loopVars' = loopVars /\ tickerC' = tickerC)]_vars
    /\ [](\A t \in TickIds :
            (InFlight(t) /\ ~crashed /\ ticks[t].pc # "send") => ENABLED Do(t))
    /\ []((loopPc = "launch" /\ ~crashed) => ENABLED Launch)

\* C15 witness: the second tick, launched on the ticker firing one
\* SleepDuration after the start, is querying while the first, which has
\* reported no error, is still querying too.
C15_Witness ==
    /\ ticks[1].pc \in {"hist", "rate", "count"}
    /\ ticks[2].pc \in {"hist", "rate", "count"}
    /\ ticks[2].at = ticks[1].at + SleepDuration
    /\ errs = << >>
    /\ logged = {}

\* C16: a select the loop leaves while the interrupt is pending is left to
\* Stopped, also when a ticker firing or a tick's error is ready at the same
\* select.
C16_InterruptAtNextWait ==
    [][(interrupt /\ loopPc = "select" /\ loopPc' # "select")
          => loopPc' = "stopped"]_vars

\* C17: a tick computes its window in one step, from the clock at that step;
\* the window then stays what calcRange gives for that instant until the tick
\* returns, and every range query of the tick is made over it.
C17_OwnWindowOnce ==
    /\ [][\A t \in TickIds :
            /\ (ticks[t].pc = "calcRange" /\ ticks'[t] # ticks[t] /\ ~crashed')
                  => /\ ticks'[t].at = now
                     /\ ticks'[t].queryRange = calcRange(now)
            /\ (InFlight(t) /\ ticks[t].pc # "calcRange" /\ InFlight(t)')
                  => /\ ticks'[t].at = ticks[t].at
                     /\ ticks'[t].queryRange = ticks[t].queryRange]_vars
    /\ [](\A t \in TickIds :
            (InFlight(t) /\ ticks[t].pc # "calcRange")
               => /\ ticks[t].queryRange = calcRange(ticks[t].at)
                  /\ \A i \in 1 .. Len(ticks[t].calls) :
                        ticks[t].calls[i].op = "QueryMetrics"
                           => ticks[t].calls[i].range = ticks[t].queryRange)

\* C17 witness: the clock has moved on since the first tick computed its
\* window and that tick has made its three queries; the second tick, launched
\* by the ticker meanwhile, has made its own over another window.
C17_Witness ==
    /\ Len(ticks[1].calls) = 3
    /\ Len(ticks[2].calls) = 3
    /\ ticks[1].queryRange # ticks[2].queryRange
    /\ now > ticks[1].at
    /\ ticks[1].calls[3].range # ticks[2].calls[3].range

\* A step of Run's loop or of what it waits for: the ticker, the signal.
SchedulerStep ==
    Launch \/ RecvErr \/ BackoffElapsed \/ RecvTicker \/ RecvInterrupt \/ TickerFire \/ Signal

\* C18 (as claimed): in every state but Stopped the scheduler can take a
\* step, and nothing has ended the process.
C18_AsClaimed ==
    loopPc # "stopped" => (~crashed /\ ENABLED SchedulerStep)

\* C18 (amended): the loop enters Stopped only by receiving the interrupt and
\* takes no step from it; in every other state of a live process it can take
\* a step; the process ends otherwise only by the panic of a tick, in its
\* range calculation or at its ListMetrics.
C18_StoppedOrPanic ==
    /\ [][(loopPc # "stopped" /\ loopPc' = "stopped")
            => (loopPc = "select" /\ interrupt /\ stopLog')]_vars
    /\ [](loopPc = "stopped" => ~ENABLED SchedulerStep)
    /\ []((loopPc # "stopped" /\ ~crashed) => ENABLED SchedulerStep)
    /\ [][(crashed' /\ ~crashed)
            => \E t \in TickIds : /\ ticks[t].pc \in {"calcRange", "list"}
                                  /\ ticks'[t].pc = "panic"]_vars
    /\ [](crashed => ~ENABLED Next)

\* C18 witness: the second tick's ListMetrics has panicked while the loop
\* was in the backoff that followed the first tick's error.
C18_Witness ==
    /\ crashed
    /\ loopPc = "backoff"
    /\ ticks[2].pc = "panic"
    /\ ticks[2].listErr

\* C19: a tick that is reporting its error is never stuck for good: while the
\* process lives it can send, or the loop is still there to receive what
\* fills the channel.
C19_NeverBlockedForever ==
    \A t \in TickIds :
        (ticks[t].pc = "send" /\ ~crashed)
        => (ENABLED DoSendErr(t) \/ loopPc # "stopped")

\* The quantile (in thousandths) behind the i-th call of a tick whose
\* catalog has H histograms: the histogram queries come first, quantile by
\* quantile.
QuantileOfCall(i, H) == Quantiles[((i - 1) \div H) + 1]

\* C20: the quantile written into a histogram query is the configured one,
\* and the queries a tick makes for one bucket name under two distinct
\* configured quantiles are distinct expressions.
C20_QuantilesKept ==
    \A t \in TickIds :
        LET tk == ticks[t]
            H  == Len(tk.histograms)
            hq == { i \in 1 .. Len(tk.calls) :
                      tk.calls[i].promql.kind = "histogram_quantile" }
        IN  /\ \A i \in hq : tk.calls[i].promql.q * 10 = QuantileOfCall(i, H)
            /\ \A i \in hq : \A j \in hq :
                   (/\ tk.calls[i].promql.metric = tk.calls[j].promql.metric
                    /\ QuantileOfCall(i, H) # QuantileOfCall(j, H))
                   => tk.calls[i].promql # tk.calls[j].promql

====
